---- MODULE Spec2Model ----
(***************************************************************************)
(* tunnel-vision: the focus overlay of src/tunnel_vision/main_cli.py.      *)
(* State: the fields of FocusOverlayWidget and of its FocusAreaWidget      *)
(* child.  One action per Qt event handler; the timer's timeout slot is    *)
(* perform_smooth_scroll.                                                  *)
(***************************************************************************)
EXTENDS Integers, FiniteSets, Sequences, TLC

VARIABLES
    focus_rect,               \* self.focus_rect, a QRect as [x, y, w, h]
    dragging,                 \* self.dragging
    drag_corner,              \* self.drag_corner, None or an anchor name
    drag_start_pos,           \* self.drag_start_pos, None or a QPoint [x, y]
    original_rect,            \* self.original_rect
    auto_scrolling,           \* self.auto_scrolling
    smooth_scroll_timer,      \* the QTimer: [active, interval]
    scroll_speed,             \* self.scroll_speed
    current_smooth_step,      \* self.current_smooth_step
    last_action,              \* self.last_action
    always_on_top,            \* self.always_on_top
    focus_area,               \* the child: [geometry, focus_rect, hidden, transparent]
    cursor,                   \* the overlay's cursor shape
    closed,                   \* the overlay window was closed (Escape)
    posted,                   \* the wheel deltas CGEventPost sent in the last handler
    MACOS_MODULES_AVAILABLE,  \* set once at import
    presses                   \* environment: presses delivered to the overlay so far

vars == <<focus_rect, dragging, drag_corner, drag_start_pos, original_rect,
          auto_scrolling, smooth_scroll_timer, scroll_speed, current_smooth_step,
          last_action, always_on_top, focus_area, cursor, closed, posted,
          MACOS_MODULES_AVAILABLE, presses>>

dragVars == <<focus_rect, dragging, drag_corner, drag_start_pos, original_rect>>
scrollVars == <<auto_scrolling, smooth_scroll_timer, scroll_speed, current_smooth_step>>

None == "None"
\* None where a QPoint is expected
NonePos == [none |-> TRUE]

(***************************************************************************)
(* Program constants.                                                      *)
(***************************************************************************)
min_width == 100
min_height == 100
hit_threshold == 14
scroll_interval == 10000
smooth_scroll_steps == 50

(***************************************************************************)
(* Bounds of the environment.                                              *)
(***************************************************************************)
\* Plus/Equal is pressed only while |scroll_speed| < MaxSpeed.
MaxSpeed == 2
\* Under Spec the timer fires only while current_smooth_step < MaxTickStep;
\* SpecScroll lets it run through the whole cycle of smooth_scroll_steps.
MaxTickStep == 1

\* The overlay receives at most MaxPresses mouse presses.
MaxPresses == 2

\* Pointer positions of Spec: outside the top-left corner, above the top-middle
\* anchor, and inside the rectangle next to the bottom-right corner (on the
\* child while the child takes mouse events).
Points == {[x |-> 190, y |-> 140], [x |-> 600, y |-> 140], [x |-> 990, y |-> 640]}

\* Pointer positions of SpecDrag: a point outside each corner of the initial
\* rectangle and one above its top-middle anchor, where a press starts a drag,
\* and points the pointer is moved to, inside and left of the rectangle and
\* right of its bottom-right corner.
DragPoints ==
    {[x |-> 190, y |-> 140], [x |-> 1010, y |-> 140], [x |-> 190, y |-> 660],
     [x |-> 1010, y |-> 660], [x |-> 600, y |-> 140],
     [x |-> 940, y |-> 590], [x |-> 600, y |-> 590], [x |-> 190, y |-> 590],
     [x |-> 1060, y |-> 630]}

Keys == {"Escape", "Space", "T", "S", "Plus", "Equal", "Minus", "Other"}

(***************************************************************************)
(* QRect and QPoint.                                                       *)
(***************************************************************************)
QRect(x, y, w, h) == [x |-> x, y |-> y, w |-> w, h |-> h]
QPoint(x, y) == [x |-> x, y |-> y]

Abs(n) == IF n < 0 THEN -n ELSE n
Max(a, b) == IF a >= b THEN a ELSE b
Min(a, b) == IF a <= b THEN a ELSE b

\* C++ integer division by 2: it truncates toward zero.
Half(n) == IF n >= 0 THEN n \div 2 ELSE -((-n) \div 2)

\* QRect stores the corners (x1, y1, x2, y2) with x2 = x + w - 1, y2 = y + h - 1.
left(r) == r.x
top(r) == r.y
right(r) == r.x + r.w - 1
bottom(r) == r.y + r.h - 1
center_x(r) == Half(left(r) + right(r))
contains(r, p) == /\ left(r) <= p.x /\ p.x <= right(r)
                  /\ top(r) <= p.y /\ p.y <= bottom(r)

(***************************************************************************)
(* The anchors, in the order the corners dict enumerates them.             *)
(***************************************************************************)
CornerOrder == <<"top-left", "top-right", "bottom-left", "bottom-right", "top-middle">>
Corners == {CornerOrder[i] : i \in 1..Len(CornerOrder)}

corners(r) ==
    [c \in Corners |->
        CASE c = "top-left"     -> QPoint(left(r), top(r))
          [] c = "top-right"    -> QPoint(right(r), top(r))
          [] c = "bottom-left"  -> QPoint(left(r), bottom(r))
          [] c = "bottom-right" -> QPoint(right(r), bottom(r))
          [] c = "top-middle"   -> QPoint(center_x(r), top(r))]

\* The test of the for loops of mouseMoveEvent and mousePressEvent.
near(point, pos) ==
    /\ Abs(point.x - pos.x) <= hit_threshold
    /\ Abs(point.y - pos.y) <= hit_threshold

\* The first anchor of the enumeration that pos is near, or None.
hit_corner(r, pos) ==
    LET hits == {i \in 1..Len(CornerOrder) : near(corners(r)[CornerOrder[i]], pos)}
    IN  IF hits = {} THEN None
        ELSE CornerOrder[CHOOSE i \in hits : \A j \in hits : i <= j]

\* "left" in corner, "right" in corner, "top" in corner, "bottom" in corner
has_left(c) == c \in {"top-left", "bottom-left"}
has_right(c) == c \in {"top-right", "bottom-right"}
has_top(c) == c \in {"top-left", "top-right", "top-middle"}
has_bottom(c) == c \in {"bottom-left", "bottom-right"}

\* _update_rect_dimensions without "Enforce minimum dimensions".
_update_rect_dimensions_unclamped(rect, dx, dy, corner) ==
    IF corner = "top-middle"
    THEN QRect(rect.x + dx, rect.y + dy, rect.w, rect.h)
    ELSE QRect(IF has_left(corner) THEN rect.x + dx ELSE rect.x,
               IF has_top(corner) THEN rect.y + dy ELSE rect.y,
               IF has_left(corner) THEN rect.w - dx
               ELSE IF has_right(corner) THEN rect.w + dx ELSE rect.w,
               IF has_top(corner) THEN rect.h - dy
               ELSE IF has_bottom(corner) THEN rect.h + dy ELSE rect.h)

\* _update_rect_dimensions clamping the size without recomputing x and y.
_update_rect_dimensions_unpinned(rect, dx, dy, corner) ==
    LET r == _update_rect_dimensions_unclamped(rect, dx, dy, corner) IN
    IF corner = "top-middle" THEN r
    ELSE QRect(r.x, r.y, Max(r.w, min_width), Max(r.h, min_height))

\* _update_rect_dimensions whose top-middle move keeps the rectangle at x, y >= 0.
_update_rect_dimensions_move_clamped(rect, dx, dy, corner) ==
    IF corner = "top-middle"
    THEN QRect(Max(rect.x + dx, 0), Max(rect.y + dy, 0), rect.w, rect.h)
    ELSE
        LET x1 == IF has_left(corner) THEN rect.x + dx ELSE rect.x
            w1 == IF has_left(corner) THEN rect.w - dx
                  ELSE IF has_right(corner) THEN rect.w + dx ELSE rect.w
            y1 == IF has_top(corner) THEN rect.y + dy ELSE rect.y
            h1 == IF has_top(corner) THEN rect.h - dy
                  ELSE IF has_bottom(corner) THEN rect.h + dy ELSE rect.h
            x2 == IF w1 < min_width /\ has_left(corner)
                  THEN rect.x + (rect.w - min_width) ELSE x1
            w2 == IF w1 < min_width THEN min_width ELSE w1
            y2 == IF h1 < min_height /\ has_top(corner)
                  THEN rect.y + (rect.h - min_height) ELSE y1
            h2 == IF h1 < min_height THEN min_height ELSE h1
        IN  QRect(x2, y2, w2, h2)

\* _update_rect_dimensions with the sign of dy slipped for a bottom corner.
_update_rect_dimensions_bottom_inverted(rect, dx, dy, corner) ==
    IF corner = "top-middle"
    THEN QRect(rect.x + dx, rect.y + dy, rect.w, rect.h)
    ELSE
        LET x1 == IF has_left(corner) THEN rect.x + dx ELSE rect.x
            w1 == IF has_left(corner) THEN rect.w - dx
                  ELSE IF has_right(corner) THEN rect.w + dx ELSE rect.w
            y1 == IF has_top(corner) THEN rect.y + dy ELSE rect.y
            h1 == IF has_top(corner) THEN rect.h - dy
                  ELSE IF has_bottom(corner) THEN rect.h - dy ELSE rect.h
            x2 == IF w1 < min_width /\ has_left(corner)
                  THEN rect.x + (rect.w - min_width) ELSE x1
            w2 == IF w1 < min_width THEN min_width ELSE w1
            y2 == IF h1 < min_height /\ has_top(corner)
                  THEN rect.y + (rect.h - min_height) ELSE y1
            h2 == IF h1 < min_height THEN min_height ELSE h1
        IN  QRect(x2, y2, w2, h2)

_update_rect_dimensions(rect, dx, dy, corner) ==
    IF corner = "top-middle"
    THEN QRect(rect.x + dx, rect.y + dy, rect.w, rect.h)
    ELSE
        LET x1 == IF has_left(corner) THEN rect.x + dx ELSE rect.x
            w1 == IF has_left(corner) THEN rect.w - dx
                  ELSE IF has_right(corner) THEN rect.w + dx ELSE rect.w
            y1 == IF has_top(corner) THEN rect.y + dy ELSE rect.y
            h1 == IF has_top(corner) THEN rect.h - dy
                  ELSE IF has_bottom(corner) THEN rect.h + dy ELSE rect.h
            x2 == IF w1 < min_width /\ has_left(corner)
                  THEN rect.x + (rect.w - min_width) ELSE x1
            w2 == IF w1 < min_width THEN min_width ELSE w1
            y2 == IF h1 < min_height /\ has_top(corner)
                  THEN rect.y + (rect.h - min_height) ELSE y1
            h2 == IF h1 < min_height THEN min_height ELSE h1
        IN  QRect(x2, y2, w2, h2)

_update_cursor_for_corner(corner) ==
    IF corner = "top-middle" THEN "SizeAllCursor"
    ELSE IF corner \in {"top-left", "bottom-right"} THEN "SizeFDiagCursor"
    ELSE "SizeBDiagCursor"

(***************************************************************************)
(* Construction: FocusOverlayWidget.__init__ followed by showMaximized().  *)
(***************************************************************************)
Init ==
    /\ focus_rect = QRect(200, 150, 800, 500)
    /\ dragging = FALSE
    /\ drag_corner = None
    /\ drag_start_pos = NonePos
    /\ original_rect = QRect(0, 0, 0, 0)
    /\ auto_scrolling = FALSE
    /\ smooth_scroll_timer = [active |-> FALSE, interval |-> 0]
    /\ scroll_speed = -1
    /\ current_smooth_step = 0
    /\ last_action = "Ready"
    /\ always_on_top = TRUE
    /\ focus_area = [geometry |-> QRect(200, 150, 800, 500),
                     focus_rect |-> QRect(200, 150, 800, 500),
                     hidden |-> FALSE,
                     transparent |-> FALSE]
    /\ cursor = "ArrowCursor"
    /\ closed = FALSE
    /\ posted = <<>>
    /\ MACOS_MODULES_AVAILABLE \in BOOLEAN
    /\ presses = 0

(***************************************************************************)
(* Mouse handlers.                                                         *)
(***************************************************************************)
\* A press lands on the child when the child is shown, takes mouse events and
\* covers the position; FocusAreaWidget.mousePressEvent accepts it, so the
\* overlay's handler does not run.
on_focus_area(pos) ==
    /\ ~focus_area.hidden
    /\ ~focus_area.transparent
    /\ contains(focus_area.geometry, pos)

FocusAreaWidget_mousePressEvent(pos) ==
    /\ ~closed
    /\ on_focus_area(pos)
    /\ posted' = <<>>
    /\ UNCHANGED <<dragVars, scrollVars, last_action, always_on_top, focus_area,
                   cursor, closed, MACOS_MODULES_AVAILABLE>>

mousePressEvent(pos) ==
    /\ ~closed
    /\ ~on_focus_area(pos)
    /\ LET corner == hit_corner(focus_rect, pos) IN
        IF corner # None
        THEN /\ dragging' = TRUE
             /\ drag_corner' = corner
             /\ drag_start_pos' = pos
             /\ original_rect' = focus_rect
             /\ last_action' = "Dragging " \o corner
             /\ focus_area' = [focus_area EXCEPT !.hidden = TRUE]
        ELSE UNCHANGED <<dragging, drag_corner, drag_start_pos, original_rect,
                         last_action, focus_area>>
    /\ posted' = <<>>
    /\ UNCHANGED <<focus_rect, scrollVars, always_on_top, cursor, closed,
                   MACOS_MODULES_AVAILABLE>>

\* mouseMoveEvent that resizes the current rectangle instead of original_rect.
mouseMoveEvent_incremental(pos) ==
    /\ ~closed
    /\ IF dragging
       THEN /\ focus_rect' = _update_rect_dimensions(focus_rect,
                                                     pos.x - drag_start_pos.x,
                                                     pos.y - drag_start_pos.y,
                                                     drag_corner)
            /\ UNCHANGED cursor
       ELSE /\ cursor' = LET corner == hit_corner(focus_rect, pos) IN
                         IF corner # None THEN _update_cursor_for_corner(corner)
                         ELSE "ArrowCursor"
            /\ UNCHANGED focus_rect
    /\ posted' = <<>>
    /\ UNCHANGED <<dragging, drag_corner, drag_start_pos, original_rect, scrollVars,
                   last_action, always_on_top, focus_area, closed,
                   MACOS_MODULES_AVAILABLE>>

mouseMoveEvent(pos) ==
    /\ ~closed
    /\ IF dragging
       THEN /\ focus_rect' = _update_rect_dimensions(original_rect,
                                                     pos.x - drag_start_pos.x,
                                                     pos.y - drag_start_pos.y,
                                                     drag_corner)
            /\ UNCHANGED cursor
       ELSE /\ cursor' = LET corner == hit_corner(focus_rect, pos) IN
                         IF corner # None THEN _update_cursor_for_corner(corner)
                         ELSE "ArrowCursor"
            /\ UNCHANGED focus_rect
    /\ posted' = <<>>
    /\ UNCHANGED <<dragging, drag_corner, drag_start_pos, original_rect, scrollVars,
                   last_action, always_on_top, focus_area, closed,
                   MACOS_MODULES_AVAILABLE>>

\* update_focus_area_geometry that leaves the child where it was.
update_focus_area_geometry_stale(fa) == fa

update_focus_area_geometry(fa) ==
    [fa EXCEPT !.geometry = focus_rect, !.focus_rect = focus_rect]

\* mouseReleaseEvent that cancels the drag: the rectangle goes back to original_rect.
mouseReleaseEvent_reverting ==
    /\ ~closed
    /\ IF dragging
       THEN /\ dragging' = FALSE
            /\ drag_corner' = None
            /\ last_action' = "Ready"
            /\ focus_rect' = original_rect
            /\ focus_area' = [update_focus_area_geometry(focus_area) EXCEPT !.hidden = FALSE]
       ELSE UNCHANGED <<dragging, drag_corner, last_action, focus_area, focus_rect>>
    /\ posted' = <<>>
    /\ UNCHANGED <<drag_start_pos, original_rect, scrollVars,
                   always_on_top, cursor, closed, MACOS_MODULES_AVAILABLE>>

mouseReleaseEvent ==
    /\ ~closed
    /\ IF dragging
       THEN /\ dragging' = FALSE
            /\ drag_corner' = None
            /\ last_action' = "Ready"
            /\ focus_area' = [update_focus_area_geometry(focus_area) EXCEPT !.hidden = FALSE]
       ELSE UNCHANGED <<dragging, drag_corner, last_action, focus_area>>
    /\ posted' = <<>>
    /\ UNCHANGED <<focus_rect, drag_start_pos, original_rect, scrollVars,
                   always_on_top, cursor, closed, MACOS_MODULES_AVAILABLE>>

(***************************************************************************)
(* Auto-scroll.                                                            *)
(***************************************************************************)
\* smooth_interval = int(scroll_interval / smooth_scroll_steps)
smooth_interval == scroll_interval \div smooth_scroll_steps

\* The scroll fields of self, with the child's WA_TransparentForMouseEvents.
self_scroll ==
    [auto_scrolling |-> auto_scrolling,
     smooth_scroll_timer |-> smooth_scroll_timer,
     scroll_speed |-> scroll_speed,
     current_smooth_step |-> current_smooth_step,
     transparent |-> focus_area.transparent,
     last_action |-> last_action]

\* toggle_auto_scroll that does not make the child transparent when it starts.
toggle_auto_scroll_opaque_on_start(s) ==
    IF ~s.auto_scrolling
    THEN [s EXCEPT !.auto_scrolling = TRUE,
                   !.last_action = "Started auto-scrolling",
                   !.current_smooth_step = 0,
                   !.smooth_scroll_timer = [active |-> TRUE, interval |-> smooth_interval]]
    ELSE [s EXCEPT !.auto_scrolling = FALSE,
                   !.last_action = "Stopped auto-scrolling",
                   !.smooth_scroll_timer.active = FALSE,
                   !.transparent = FALSE]

\* toggle_auto_scroll that leaves the child transparent when it stops.
toggle_auto_scroll_keeps_transparent(s) ==
    IF ~s.auto_scrolling
    THEN [s EXCEPT !.auto_scrolling = TRUE,
                   !.last_action = "Started auto-scrolling",
                   !.transparent = TRUE,
                   !.current_smooth_step = 0,
                   !.smooth_scroll_timer = [active |-> TRUE, interval |-> smooth_interval]]
    ELSE [s EXCEPT !.auto_scrolling = FALSE,
                   !.last_action = "Stopped auto-scrolling",
                   !.smooth_scroll_timer.active = FALSE]

\* The fields after toggle_auto_scroll ran on the fields s.
toggle_auto_scroll(s) ==
    IF ~s.auto_scrolling
    THEN [s EXCEPT !.auto_scrolling = TRUE,
                   !.last_action = "Started auto-scrolling",
                   !.transparent = TRUE,
                   !.current_smooth_step = 0,
                   !.smooth_scroll_timer = [active |-> TRUE, interval |-> smooth_interval]]
    ELSE [s EXCEPT !.auto_scrolling = FALSE,
                   !.last_action = "Stopped auto-scrolling",
                   !.smooth_scroll_timer.active = FALSE,
                   !.transparent = FALSE]

\* The wheel delta of the event perform_smooth_scroll creates.
pixels_per_step == Abs(scroll_speed) * 1
\* The wheel delta without the direction of scroll_speed.
wheel_delta_unsigned == pixels_per_step

\* The signed delta: positive scrolls up, negative down.
wheel_delta == IF scroll_speed > 0 THEN pixels_per_step ELSE -pixels_per_step

\* The step counter incremented without the reset at smooth_scroll_steps.
next_smooth_step_unwrapped == current_smooth_step + 1

\* The step counter after one successful tick.
next_smooth_step ==
    IF current_smooth_step + 1 >= smooth_scroll_steps THEN 0
    ELSE current_smooth_step + 1

\* perform_smooth_scroll that ends the run when the step counter wraps.
perform_smooth_scroll_one_cycle(ok) ==
    /\ ~closed
    /\ IF ~auto_scrolling \/ ~MACOS_MODULES_AVAILABLE
       THEN /\ smooth_scroll_timer' = [smooth_scroll_timer EXCEPT !.active = FALSE]
            /\ posted' = <<>>
            /\ UNCHANGED current_smooth_step
       ELSE IF ok
       THEN /\ posted' = <<wheel_delta>>
            /\ current_smooth_step' = next_smooth_step
            /\ smooth_scroll_timer' =
                   [smooth_scroll_timer EXCEPT !.active = (next_smooth_step # 0)]
       ELSE /\ smooth_scroll_timer' = [smooth_scroll_timer EXCEPT !.active = FALSE]
            /\ posted' = <<>>
            /\ UNCHANGED current_smooth_step
    /\ UNCHANGED <<dragVars, auto_scrolling, scroll_speed, last_action, always_on_top,
                   focus_area, cursor, closed, MACOS_MODULES_AVAILABLE>>

\* perform_smooth_scroll without the auto_scrolling test of its first line.
perform_smooth_scroll_unguarded(ok) ==
    /\ ~closed
    /\ IF ~MACOS_MODULES_AVAILABLE
       THEN /\ smooth_scroll_timer' = [smooth_scroll_timer EXCEPT !.active = FALSE]
            /\ posted' = <<>>
            /\ UNCHANGED current_smooth_step
       ELSE IF ok
       THEN /\ posted' = <<wheel_delta>>
            /\ current_smooth_step' = next_smooth_step
            /\ UNCHANGED smooth_scroll_timer
       ELSE /\ smooth_scroll_timer' = [smooth_scroll_timer EXCEPT !.active = FALSE]
            /\ posted' = <<>>
            /\ UNCHANGED current_smooth_step
    /\ UNCHANGED <<dragVars, auto_scrolling, scroll_speed, last_action, always_on_top,
                   focus_area, cursor, closed, MACOS_MODULES_AVAILABLE>>

\* The timeout slot of smooth_scroll_timer.  ok says whether creating and
\* posting the event succeeded; when either raises, nothing was posted.
perform_smooth_scroll(ok) ==
    /\ ~closed
    /\ IF ~auto_scrolling \/ ~MACOS_MODULES_AVAILABLE
       THEN /\ smooth_scroll_timer' = [smooth_scroll_timer EXCEPT !.active = FALSE]
            /\ posted' = <<>>
            /\ UNCHANGED current_smooth_step
       ELSE IF ok
       THEN /\ posted' = <<wheel_delta>>
            /\ current_smooth_step' = next_smooth_step
            /\ UNCHANGED smooth_scroll_timer
       ELSE /\ smooth_scroll_timer' = [smooth_scroll_timer EXCEPT !.active = FALSE]
            /\ posted' = <<>>
            /\ UNCHANGED current_smooth_step
    /\ UNCHANGED <<dragVars, auto_scrolling, scroll_speed, last_action, always_on_top,
                   focus_area, cursor, closed, MACOS_MODULES_AVAILABLE>>

\* smooth_scroll_timer fires: an active QTimer emits timeout, which runs the slot.
timeout(ok) == smooth_scroll_timer.active /\ perform_smooth_scroll(ok)

\* A timeout that was due when toggle_auto_scroll stopped the timer and whose
\* slot runs afterwards, in the idle state the toggle left.
pending_timeout(ok) ==
    /\ ~smooth_scroll_timer.active
    /\ ~auto_scrolling
    /\ perform_smooth_scroll(ok)

(***************************************************************************)
(* Keyboard.                                                               *)
(***************************************************************************)
\* Space that always sets the direction to UP.
speed_flipped_up(speed) == Abs(speed)
\* The speed after Space.
speed_flipped(speed) == -speed

\* Plus that adds 1 whatever the sign.
speed_increased_unsigned(speed) == speed + 1
\* The speed after Plus or Equal.
speed_increased(speed) == IF speed > 0 THEN speed + 1 ELSE speed - 1

\* Minus without the floor at magnitude 1.
speed_decreased_unclamped(speed) == IF speed > 0 THEN speed - 1 ELSE speed + 1
\* The speed after Minus.
speed_decreased(speed) == IF speed > 0 THEN Max(1, speed - 1) ELSE Min(-1, speed + 1)

keyPressEvent(key) ==
    LET toggled == toggle_auto_scroll(self_scroll) IN
    /\ ~closed
    /\ closed' = (key = "Escape")
    /\ scroll_speed' =
         CASE key = "Space" -> speed_flipped(scroll_speed)
           [] key \in {"Plus", "Equal"} -> speed_increased(scroll_speed)
           [] key = "Minus" -> speed_decreased(scroll_speed)
           [] key = "S" -> toggled.scroll_speed
           [] OTHER -> scroll_speed
    /\ always_on_top' = IF key = "T" THEN ~always_on_top ELSE always_on_top
    /\ auto_scrolling' = IF key = "S" THEN toggled.auto_scrolling ELSE auto_scrolling
    /\ smooth_scroll_timer' = IF key = "S" THEN toggled.smooth_scroll_timer
                              ELSE smooth_scroll_timer
    /\ current_smooth_step' = IF key = "S" THEN toggled.current_smooth_step
                              ELSE current_smooth_step
    /\ focus_area' = IF key = "S"
                     THEN [focus_area EXCEPT !.transparent = toggled.transparent]
                     ELSE focus_area
    /\ last_action' =
         CASE key = "Space" ->
                "Changed scroll direction to "
                    \o (IF speed_flipped(scroll_speed) < 0 THEN "DOWN" ELSE "UP")
           [] key = "T" -> "Always on top: " \o (IF ~always_on_top THEN "ON" ELSE "OFF")
           [] key = "S" -> toggled.last_action
           [] OTHER -> last_action
    /\ posted' = <<>>
    /\ UNCHANGED <<dragVars, cursor, MACOS_MODULES_AVAILABLE>>

(***************************************************************************)
(* Specifications.                                                         *)
(***************************************************************************)
\* The environment presses Plus/Equal only below MaxSpeed.
KeyAllowed(key) == key \in {"Plus", "Equal"} => Abs(scroll_speed) < MaxSpeed

\* The environment delivers at most MaxPresses presses to the overlay; no
\* handler reads or writes the count.
PressAllowed == presses < MaxPresses /\ presses' = presses + 1

\* The whole program: every handler, pointer positions from Points, the timer
\* firing during the first MaxTickStep steps of a cycle.
Next ==
    \/ \E pos \in Points : FocusAreaWidget_mousePressEvent(pos) /\ UNCHANGED presses
    \/ \E pos \in Points : PressAllowed /\ mousePressEvent(pos)
    \/ \E pos \in Points : mouseMoveEvent(pos) /\ UNCHANGED presses
    \/ mouseReleaseEvent /\ UNCHANGED presses
    \/ \E key \in Keys : KeyAllowed(key) /\ keyPressEvent(key) /\ UNCHANGED presses
    \/ \E ok \in BOOLEAN : /\ current_smooth_step < MaxTickStep
                           /\ timeout(ok)
                           /\ UNCHANGED presses

Spec == Init /\ [][Next]_vars

\* The mouse alone, over the positions DragPoints.
NextDrag ==
    \/ \E pos \in DragPoints : FocusAreaWidget_mousePressEvent(pos) /\ UNCHANGED presses
    \/ \E pos \in DragPoints : PressAllowed /\ mousePressEvent(pos)
    \/ \E pos \in DragPoints : mouseMoveEvent(pos) /\ UNCHANGED presses
    \/ mouseReleaseEvent /\ UNCHANGED presses

SpecDrag == Init /\ [][NextDrag]_vars

\* Keyboard and timer alone, the timer running through whole cycles.
NextScroll ==
    \/ \E key \in Keys : KeyAllowed(key) /\ keyPressEvent(key) /\ UNCHANGED presses
    \/ \E ok \in BOOLEAN : timeout(ok) /\ UNCHANGED presses

SpecScroll == Init /\ [][NextScroll]_vars

\* Keyboard and timer with fair delivery of ticks: the event loop runs the
\* slot of a timer that stays active.
SpecScrollFair ==
    SpecScroll /\ WF_vars(\E ok \in BOOLEAN : timeout(ok) /\ UNCHANGED presses)

\* Keyboard and timer, with timeouts that are delivered after the timer stopped.
NextPending ==
    \/ \E key \in Keys : KeyAllowed(key) /\ keyPressEvent(key) /\ UNCHANGED presses
    \/ \E ok \in BOOLEAN : timeout(ok) /\ UNCHANGED presses
    \/ \E ok \in BOOLEAN : pending_timeout(ok) /\ UNCHANGED presses

SpecPending == Init /\ [][NextPending]_vars

(***************************************************************************)
(* Properties.                                                             *)
(***************************************************************************)
\* C1: in every reachable state the focus rectangle's width and height are at
\* least the minimum, 100 by 100, whatever the anchor and the displacement.
C1_MinimumSize ==
    /\ focus_rect.w >= min_width
    /\ focus_rect.h >= min_height

\* A top-left drag from a larger rectangle that ran into the minimum on both axes.
C1_Witness ==
    /\ dragging
    /\ drag_corner = "top-left"
    /\ original_rect.w > min_width /\ original_rect.h > min_height
    /\ focus_rect.w = min_width /\ focus_rect.h = min_height

\* C2: during a corner drag the edges opposite to the corner stay where they
\* were at the press, also when the minimum size clamps the result.
C2_OppositeEdgesFixed ==
    dragging =>
        /\ has_left(drag_corner) => right(focus_rect) = right(original_rect)
        /\ has_right(drag_corner) => left(focus_rect) = left(original_rect)
        /\ (has_top(drag_corner) /\ drag_corner # "top-middle")
               => bottom(focus_rect) = bottom(original_rect)
        /\ has_bottom(drag_corner) => top(focus_rect) = top(original_rect)

\* A bottom-left drag clamped in width (the left edge was recomputed) and
\* resized freely in height.
C2_Witness ==
    /\ dragging
    /\ drag_corner = "bottom-left"
    /\ original_rect.w > min_width
    /\ focus_rect.w = min_width
    /\ focus_rect.x # original_rect.x
    /\ focus_rect.h # original_rect.h
    /\ focus_rect.h > min_height

\* C3: with the injection capability present, the UI shows auto-scroll ON
\* (auto_scrolling) only while the timer runs; a failed injection must leave
\* the timer halted and auto_scrolling false.
C3_ScrollingOnlyWhileTimerRuns ==
    MACOS_MODULES_AVAILABLE => (auto_scrolling => smooth_scroll_timer.active)

\* C4: without the injection capability auto_scrolling is never true.
C4_NoScrollingWithoutCapability ==
    ~MACOS_MODULES_AVAILABLE => ~auto_scrolling

\* The scroll fields after two toggle commands in a row.
toggled_twice == toggle_auto_scroll(toggle_auto_scroll(self_scroll))

\* C5 as stated: two toggles in a row return the enabled flag, the speed, the
\* step counter, the timer-running state and the click-through state to the
\* values they had.  It is stated here for the states in which the timer runs
\* exactly while auto-scroll is on, so that its failure does not rest on the
\* states a failed or capability-less tick leaves (C3, C4).
C5_ToggleTwiceRestoresAll ==
    (smooth_scroll_timer.active <=> auto_scrolling) =>
        /\ toggled_twice.auto_scrolling = auto_scrolling
        /\ toggled_twice.scroll_speed = scroll_speed
        /\ toggled_twice.current_smooth_step = current_smooth_step
        /\ toggled_twice.smooth_scroll_timer.active = smooth_scroll_timer.active
        /\ toggled_twice.transparent = focus_area.transparent

\* C5 amended: two toggles in a row return the enabled flag, the speed and the
\* click-through state to the values they had; the step counter ends at 0 and
\* the timer ends running exactly when auto-scroll was enabled.
C5_ToggleTwice ==
    /\ toggled_twice.auto_scrolling = auto_scrolling
    /\ toggled_twice.scroll_speed = scroll_speed
    /\ toggled_twice.transparent = focus_area.transparent
    /\ toggled_twice.current_smooth_step = 0
    /\ toggled_twice.smooth_scroll_timer.active = auto_scrolling

\* Auto-scroll was toggled on, ticks advanced the step counter and the speed
\* was changed; the next two toggles start from here.
C5_Witness ==
    /\ auto_scrolling
    /\ smooth_scroll_timer.active
    /\ focus_area.transparent
    /\ current_smooth_step > 1
    /\ scroll_speed = 2

\* C6: the active corner, the drag-start position and the rectangle snapshot
\* are set exactly when dragging is true.
C6_DragStateIffDragging ==
    /\ dragging <=> drag_corner # None
    /\ dragging <=> drag_start_pos # NonePos
    /\ dragging <=> original_rect # QRect(0, 0, 0, 0)

\* C7: while no drag is in progress the child is shown with the focus
\* rectangle as its geometry; during a drag it is hidden, and its geometry
\* does not change from one state of the drag to the next.
C7_SubWindowFollowsRect ==
    /\ [](IF dragging THEN focus_area.hidden
          ELSE ~focus_area.hidden /\ focus_area.geometry = focus_rect)
    /\ [][(dragging /\ dragging') => focus_area'.geometry = focus_area.geometry]_vars

\* A drag that was pressed a second time after the rectangle had moved and
\* then released: the child is shown again at the new rectangle.
C7_Witness ==
    /\ ~dragging
    /\ presses = 2
    /\ ~focus_area.hidden
    /\ focus_area.geometry = focus_rect
    /\ original_rect # QRect(200, 150, 800, 500)
    /\ focus_rect # original_rect

\* C8: the speed is never 0, and Minus keeps its sign and takes its magnitude
\* to max(1, |speed| - 1).
C8_DecreaseFloorsAtOne ==
    /\ scroll_speed # 0
    /\ Abs(speed_decreased(scroll_speed)) = Max(1, Abs(scroll_speed) - 1)
    /\ (speed_decreased(scroll_speed) > 0) <=> (scroll_speed > 0)
    /\ (speed_decreased(scroll_speed) < 0) <=> (scroll_speed < 0)

\* The speed at the floor on the positive side, reached by a flip.
C8_Witness ==
    /\ scroll_speed = 1
    /\ last_action = "Changed scroll direction to UP"

\* C9: Space negates the speed, so that a second Space gives the speed back,
\* and leaves the drag state, the other scroll fields, the child and the
\* window flags alone (it rewrites the last_action label only); a timer tick
\* does not change the speed.
C9_FlipNegates ==
    [][/\ keyPressEvent("Space") =>
             /\ scroll_speed' = -scroll_speed
             /\ speed_flipped(scroll_speed') = scroll_speed
             /\ UNCHANGED <<dragVars, auto_scrolling, smooth_scroll_timer,
                            current_smooth_step, always_on_top, focus_area,
                            cursor, closed, MACOS_MODULES_AVAILABLE>>
       /\ (\E ok \in BOOLEAN : perform_smooth_scroll(ok)) => UNCHANGED scroll_speed
      ]_vars

\* Two flips have acted with auto-scroll on: the direction is DOWN again at
\* magnitude 2, and ticks have run.
C9_Witness ==
    /\ last_action = "Changed scroll direction to DOWN"
    /\ scroll_speed = -2
    /\ auto_scrolling
    /\ current_smooth_step > 0

\* C10: Plus or Equal raises the magnitude of the speed by exactly 1 and keeps
\* its sign; from the initial -1, a flip gives +1 and an increase then +2.
C10_IncreaseAddsOne ==
    /\ Abs(speed_increased(scroll_speed)) = Abs(scroll_speed) + 1
    /\ (speed_increased(scroll_speed) > 0) <=> (scroll_speed > 0)
    /\ speed_flipped(-1) = 1
    /\ speed_increased(speed_flipped(-1)) = 2

\* The speed +2 with the direction last flipped to UP.
C10_Witness ==
    /\ scroll_speed = 2
    /\ last_action = "Changed scroll direction to UP"

\* The resize of C11 for a corner: the left edge x and the right edge x + w,
\* the top edge y and the bottom edge y + h move by the raw displacement when
\* the corner names them; a width or height below 100 is then set to 100 with
\* the edge the corner does not name kept.
C11_Expected(r, dx, dy, c) ==
    LET l == IF has_left(c) THEN r.x + dx ELSE r.x
        rr == IF has_right(c) THEN r.x + r.w + dx ELSE r.x + r.w
        t == IF has_top(c) THEN r.y + dy ELSE r.y
        b == IF has_bottom(c) THEN r.y + r.h + dy ELSE r.y + r.h
        w == Max(rr - l, 100)
        h == Max(b - t, 100)
    IN  QRect(IF has_left(c) THEN rr - w ELSE l, IF has_top(c) THEN b - h ELSE t, w, h)

\* C11: every move of a corner drag sets the rectangle to the drag-start
\* rectangle with the raw displacement added to the named edges and the size
\* then clamped to 100; bottom-right by (50,-30) from (200,150,800,500) gives
\* (200,150,850,470) and top-left by (750,450) gives (900,550,100,100).
C11_ExactArithmetic ==
    [][/\ \A pos \in DragPoints :
              (dragging /\ drag_corner # "top-middle" /\ mouseMoveEvent(pos)) =>
                  focus_rect' = C11_Expected(original_rect,
                                             pos.x - drag_start_pos.x,
                                             pos.y - drag_start_pos.y,
                                             drag_corner)
       /\ _update_rect_dimensions(QRect(200, 150, 800, 500), 50, -30, "bottom-right")
              = QRect(200, 150, 850, 470)
       /\ _update_rect_dimensions(QRect(200, 150, 800, 500), 750, 450, "top-left")
              = QRect(900, 550, 100, 100)
      ]_vars

\* The first example as a state: the bottom-right corner of the initial
\* rectangle dragged from (1010,660) to (1060,630).
C11_Witness ==
    /\ dragging
    /\ drag_corner = "bottom-right"
    /\ drag_start_pos = QPoint(1010, 660)
    /\ original_rect = QRect(200, 150, 800, 500)
    /\ focus_rect = QRect(200, 150, 850, 470)

\* C12: in every state where auto_scrolling is false the timer is not running
\* and the last handler emitted no scroll event, also when that handler is a
\* timeout delivered after the toggle-off; the step counter of the cancelled
\* run is left as it was.
C12_SynchronousCancel ==
    ~auto_scrolling => ~smooth_scroll_timer.active /\ posted = <<>>

\* After a run that emitted events, the toggle-off has been processed: idle,
\* with the step counter the ticks of that run left.
C12_Witness ==
    /\ ~auto_scrolling
    /\ last_action = "Stopped auto-scrolling"
    /\ current_smooth_step > 0
    /\ MACOS_MODULES_AVAILABLE

C15_ClickThroughIffScrolling ==
    focus_area.transparent <=> auto_scrolling

\* A drag in progress while auto-scroll is on: the child is still click-through.
C15_Witness ==
    /\ auto_scrolling
    /\ focus_area.transparent
    /\ dragging
    /\ focus_rect # original_rect

\* C16: every move of a top-middle drag sets the rectangle to the drag-start
\* rectangle shifted by the displacement, x0 + dx and y0 + dy, with the
\* drag-start width and height and no clamping.
C16_TopMiddleTranslates ==
    [][\A pos \in DragPoints :
           (dragging /\ drag_corner = "top-middle" /\ mouseMoveEvent(pos)) =>
               focus_rect' = QRect(original_rect.x + (pos.x - drag_start_pos.x),
                                   original_rect.y + (pos.y - drag_start_pos.y),
                                   original_rect.w, original_rect.h)
      ]_vars

\* A top-middle drag far to the left and down: the rectangle has left the
\* screen's left edge with its size intact.
C16_Witness ==
    /\ dragging
    /\ drag_corner = "top-middle"
    /\ focus_rect.x < 0
    /\ focus_rect.y > original_rect.y
    /\ focus_rect.w = original_rect.w
    /\ focus_rect.h = original_rect.h

\* C17: focus_rect changes only in a mouse move received while dragging; a
\* step of any other handler (press, release, move without a drag, key
\* press, timer tick) is not such a step and so leaves it unchanged.
C17_RectChangesOnlyInDragMove ==
    [][focus_rect' # focus_rect =>
           dragging /\ \E pos \in Points : mouseMoveEvent(pos)]_vars

\* A rectangle that a finished drag changed and that the release and the
\* toggle of auto-scroll after it left as the drag set it.
C17_Witness ==
    /\ ~dragging
    /\ focus_rect # QRect(200, 150, 800, 500)
    /\ last_action = "Started auto-scrolling"

\* C18: the timer goes from running to stopped only in a toggle-off, in a tick
\* whose injection raises, or in a tick that finds the capability unavailable,
\* never in a tick that emits, the one that wraps the step counter included;
\* and with fair ticks, from every state with auto_scrolling and the timer
\* running an event is emitted later unless the timer stops or the window is
\* closed first.
C18_RunsUntilStopped ==
    /\ [][(smooth_scroll_timer.active /\ ~smooth_scroll_timer'.active) =>
              \/ auto_scrolling /\ keyPressEvent("S")
              \/ auto_scrolling /\ MACOS_MODULES_AVAILABLE /\ timeout(FALSE)
              \/ ~MACOS_MODULES_AVAILABLE /\ \E ok \in BOOLEAN : timeout(ok)
        ]_vars
    /\ [](auto_scrolling /\ smooth_scroll_timer.active =>
              <>(posted # <<>> \/ ~smooth_scroll_timer.active \/ closed))

\* Fifty ticks in a row since the start, no key in between: the counter has
\* wrapped and the timer is still running.
C18_Witness ==
    /\ auto_scrolling
    /\ smooth_scroll_timer.active
    /\ last_action = "Started auto-scrolling"
    /\ current_smooth_step = 0
    /\ posted # <<>>

\* The integer point halfway between two anchor points: two hit regions,
\* squares of the same size around their anchors, overlap exactly when this
\* point lies in both.
C19_Midpoint(p, q) == QPoint(Half(p.x + q.x), Half(p.y + q.y))

\* C19: in every reachable state no point is within the threshold of two
\* different anchors, so at most one anchor is near any pointer position and
\* the first match of the enumeration is the only match.
C19_AnchorsDisjoint ==
    LET anchor == corners(focus_rect) IN
    /\ \A c1, c2 \in Corners :
           c1 # c2 =>
               ~(/\ near(anchor[c1], C19_Midpoint(anchor[c1], anchor[c2]))
                 /\ near(anchor[c2], C19_Midpoint(anchor[c1], anchor[c2])))
    /\ \A pos \in DragPoints :
           Cardinality({c \in Corners : near(anchor[c], pos)}) <= 1

\* The rectangle at its minimum size, 100 by 100, where the anchors are
\* closest, with the pointer hovering on one of them.
C19_Witness ==
    /\ ~dragging
    /\ focus_rect.w = min_width
    /\ focus_rect.h = min_height
    /\ hit_corner(focus_rect, QPoint(1010, 660)) = "bottom-right"
    /\ cursor = _update_cursor_for_corner("bottom-right")

\* C20: the press that starts a drag records the rectangle and the pointer
\* position and leaves the rectangle; every move of the drag keeps that
\* record and sets the rectangle to the resize of the recorded rectangle by
\* (pointer position - press position) for the pressed anchor, whatever the
\* moves before it: a move back to the press position gives the recorded
\* rectangle again.
C20_PathIndependent ==
    [][\A pos \in DragPoints :
           /\ (/\ presses' # presses
               /\ hit_corner(focus_rect, pos) # None
               /\ mousePressEvent(pos)) =>
                  /\ dragging'
                  /\ original_rect' = focus_rect
                  /\ drag_start_pos' = pos
                  /\ focus_rect' = focus_rect
           /\ (dragging /\ presses' = presses /\ mouseMoveEvent(pos)) =>
                  /\ UNCHANGED <<dragging, drag_corner, drag_start_pos, original_rect>>
                  /\ focus_rect' = _update_rect_dimensions(original_rect,
                                                           pos.x - drag_start_pos.x,
                                                           pos.y - drag_start_pos.y,
                                                           drag_corner)
                  /\ (pos = drag_start_pos => focus_rect' = original_rect)
      ]_vars

\* A top-left drag of the initial rectangle pressed at (190,140) with the
\* pointer at (600,590): the width follows the pointer, 390, whether or not
\* an earlier move had clamped it to 100; the height is clamped.
C20_Witness ==
    /\ dragging
    /\ drag_corner = "top-left"
    /\ drag_start_pos = QPoint(190, 140)
    /\ original_rect = QRect(200, 150, 800, 500)
    /\ focus_rect = QRect(610, 550, 390, 100)

====
